---- MODULE Spec2Model ----
(***************************************************************************)
(* The four Scaleway resource modules of plugins/modules                   *)
(* (scaleway_function_domain, scaleway_iam_application,                    *)
(* scaleway_mnq_credential, scaleway_vpcgw_pat_rule) as one state machine. *)
(* An invocation is main() -> core() -> create() | delete(); every call to *)
(* the provider API is one step, so that two invocations can interleave.   *)
(* The provider (the SDK and the remote API behind it) is the environment: *)
(* each call may succeed, answer 404 or fail otherwise.                    *)
(***************************************************************************)
EXTENDS Integers, Sequences, FiniteSets, TLC

VARIABLES
    kind,       \* the resource kind (which module) the invocations run
    store,      \* the provider's resources of that kind
    created,    \* number of resources the provider created so far
    pc,         \* per invocation: where it stands
    state,      \* per invocation: module.params["state"], popped by core
    check,      \* per invocation: module.check_mode
    args,       \* per invocation: the options the caller supplied
    params,     \* per invocation: module.params (after core's and create's pops)
    resource,   \* per invocation: the local variable `resource`
    target,     \* per invocation: the id or name the pending call is about
    polls,      \* per invocation: fetches made by the running wait_for_domain
    sawGone,    \* per invocation: wait_for_domain has seen a 404
    calls,      \* per invocation: the provider calls issued, in order
    outcome,    \* per invocation: what it ended with
    after,      \* per invocation: the invocations that had ended when it began
    store0      \* the resources the provider held before the first invocation

vars == <<kind, store, created, pc, state, check, args, params,
          resource, target, polls, sawGone, calls, outcome, after, store0>>

---------------------------------------------------------------------------
(* Bounds of the model *)

\* ids "1".."MaxInit" may be held by the provider before the first invocation
MaxInit == 1
\* fetches wait_for_domain makes before its deadline expires
MaxPolls == 3

Procs == {"p1", "p2"}

None == "None"
V == "v"

Id(n) == ToString(n)
InitIds == {Id(n) : n \in 1..MaxInit}
CallerNames == {"a"}
ProviderNames == {"a", "b"}

---------------------------------------------------------------------------
(* The modules' static data *)

Kinds == {"domain", "application", "credential", "pat_rule"}

\* module.params once core has popped state, the client and the wait options
ArgSpec(k) ==
    CASE k = "domain"      -> {"domain_id", "hostname", "function_id", "region"}
      [] k = "application" -> {"id", "description", "name", "organization_id"}
      [] k = "credential"  -> {"credential_id", "namespace_id", "region", "name",
                               "permissions"}
      [] k = "pat_rule"    -> {"id", "gateway_id", "public_port", "private_ip",
                               "private_port", "protocol", "zone"}

RequiredKeys(k) ==
    CASE k = "domain"      -> {"hostname", "function_id"}
      [] k = "application" -> {"description"}
      [] k = "credential"  -> {"namespace_id"}
      [] k = "pat_rule"    -> {"gateway_id", "public_port", "private_ip",
                               "private_port", "protocol"}

\* the option the module documents as the resource's id
IdentityField(k) ==
    CASE k = "domain"      -> "domain_id"
      [] k = "application" -> "id"
      [] k = "credential"  -> "credential_id"
      [] k = "pat_rule"    -> "id"

\* required_one_of of the AnsibleModule constructor
RequiredOneOf(k) ==
    CASE k = "application" -> {"id", "name"}
      [] k = "credential"  -> {"credential_id", "name"}
      [] OTHER             -> {}

\* create() filters the None values out of the create call's arguments
FiltersNone(k) == k \in {"domain", "credential"}

\* create() and delete() call wait_for_<resource>
Waitable(k) == k = "domain"

\* delete() reads the id with params.pop("id", None), not params["id"]
DeletePopsId(k) == k = "credential"

\* delete() falls back to a lookup by name
DeleteByName(k) == k = "credential"

HasName(k) == "name" \in ArgSpec(k)

---------------------------------------------------------------------------
(* Values *)

NoResource == [id |-> None, name |-> None, status |-> None]

NoOutcome ==
    [type |-> "none", changed |-> None, data |-> NoResource, msg |-> None,
     msgid |-> None]

\* module.exit_json(**kw): the keys not passed stay None
ExitJson(changed, data, msg, msgid) ==
    [type |-> "exit", changed |-> changed, data |-> data, msg |-> msg,
     msgid |-> msgid]

\* module.fail_json(msg=...)
FailJson(msg) ==
    [type |-> "fail", changed |-> None, data |-> NoResource, msg |-> msg,
     msgid |-> None]

\* an exception nobody catches: the module dies with a traceback and emits
\* neither exit_json nor fail_json
Fault(exc) ==
    [type |-> "fault", changed |-> None, data |-> NoResource, msg |-> exc,
     msgid |-> None]

\* the values of the changed key (None: the key was not passed)
T == "true"
F == "false"

\* dict.pop(key, None) and dict[key]
Pop(d, key) == [x \in (DOMAIN d) \ {key} |-> d[x]]
GetOr(d, key) == IF key \in DOMAIN d THEN d[key] ELSE None

Held(i) == \E r \in store : r.id = i
TheResource(i) == CHOOSE r \in store : r.id = i

\* the statuses wait_for_domain keeps polling on
TransientStatuses == {"pending", "deleting"}

\* the keyword arguments create() passes to the provider's create call
CreateArgs(k, prm) ==
    IF FiltersNone(k)
    THEN [x \in {y \in DOMAIN prm : prm[y] # None} |-> prm[x]]
    ELSE prm

\* the resource the provider makes of a create call
NewResource(k, kwargs) ==
    [id     |-> Id(MaxInit + created + 1),
     name   |-> IF HasName(k) THEN GetOr(kwargs, "name") ELSE None,
     status |-> IF Waitable(k) THEN "pending" ELSE "ready"]

---------------------------------------------------------------------------
(* Initial state: the provider holds any set of resources with ids 1..MaxInit *)

InitStores(k) ==
    {s \in SUBSET [id : InitIds,
                   name : IF HasName(k) THEN ProviderNames ELSE {None},
                   status : {"ready"}] :
        \A r1, r2 \in s : r1.id = r2.id => r1 = r2}

Init ==
    /\ kind \in Kinds
    /\ store \in InitStores(kind)
    /\ created = 0
    /\ pc = [p \in Procs |-> "init"]
    /\ state = [p \in Procs |-> None]
    /\ check = [p \in Procs |-> FALSE]
    /\ args = [p \in Procs |-> << >>]
    /\ params = [p \in Procs |-> << >>]
    /\ resource = [p \in Procs |-> NoResource]
    /\ target = [p \in Procs |-> None]
    /\ polls = [p \in Procs |-> 0]
    /\ sawGone = [p \in Procs |-> FALSE]
    /\ calls = [p \in Procs |-> << >>]
    /\ outcome = [p \in Procs |-> NoOutcome]
    /\ after = [p \in Procs |-> {}]
    /\ store0 = store

---------------------------------------------------------------------------
(* Bookkeeping shared by the steps *)

\* a provider call, with what it was about and how the provider answered
Call(op, arg, ans) == [op |-> op, arg |-> arg, ans |-> ans]

\* the answer to a call on id i: a failure, a 404, or the call's result
Answer(ans, i) == IF ans = "error" THEN "error" ELSE IF ~Held(i) THEN "404" ELSE "ok"

\* the invocation goes on to its next provider call
Goto(p, where, tgt) ==
    /\ pc' = [pc EXCEPT ![p] = where]
    /\ target' = [target EXCEPT ![p] = tgt]
    /\ outcome' = outcome

\* exit_json and fail_json end the process (sys.exit); so does an exception
\* that nothing catches
End(p, out) ==
    /\ pc' = [pc EXCEPT ![p] = "done"]
    /\ target' = [target EXCEPT ![p] = None]
    /\ outcome' = [outcome EXCEPT ![p] = out]

\* the answers of the provider to one call, beside the 404 the store decides
Answers == {"ok", "error"}

---------------------------------------------------------------------------
(* create(): from its first line to the first provider call *)

EnterCreate(p, prm, chk) ==
    LET id == GetOr(prm, "id") IN
    /\ params' = [params EXCEPT ![p] = Pop(prm, "id")]
    /\ IF id # None
       THEN Goto(p, "create_get", id)
       ELSE IF chk
            THEN End(p, ExitJson(T, NoResource, None, None))
            ELSE Goto(p, "create_call", None)

(* delete(): from its first line to the first provider call *)

EnterDelete(p, prm, chk) ==
    IF ~DeletePopsId(kind) /\ "id" \notin DOMAIN prm
    THEN /\ params' = [params EXCEPT ![p] = prm]
         /\ End(p, Fault("KeyError"))
    ELSE LET id   == GetOr(prm, "id")
             name == IF DeleteByName(kind) THEN GetOr(prm, "name") ELSE None
         IN /\ params' = [params EXCEPT ![p] =
                   IF DeletePopsId(kind) THEN Pop(Pop(prm, "id"), "name")
                   ELSE prm]
            /\ IF id # None
               THEN Goto(p, "delete_get", id)
               ELSE IF name # None
                    THEN Goto(p, "delete_list", name)
                    ELSE End(p, FailJson("id is required"))

(* main() and core(): argument validation, then the dispatch on state *)

ParamChoices(k) ==
    {[x \in ArgSpec(k) |->
        IF x \in RequiredKeys(k) THEN V
        ELSE IF x = IdentityField(k) THEN idv
        ELSE IF x = "name" THEN namev
        ELSE IF x \in opts THEN V ELSE None] :
      idv \in {None} \cup InitIds \cup {Id(MaxInit + n) : n \in 1..created},
      namev \in {None} \cup CallerNames,
      opts \in SUBSET (ArgSpec(k) \ (RequiredKeys(k) \cup {IdentityField(k), "name"}))}

Main(p) ==
    /\ pc[p] = "init"
    /\ \E st \in {"present", "absent"}, chk \in BOOLEAN, prm \in ParamChoices(kind) :
        /\ state' = [state EXCEPT ![p] = st]
        /\ check' = [check EXCEPT ![p] = chk]
        /\ args' = [args EXCEPT ![p] = prm]
        /\ after' = [after EXCEPT ![p] = {q \in Procs : pc[q] = "done"}]
        /\ IF RequiredOneOf(kind) # {} /\ \A x \in RequiredOneOf(kind) : prm[x] = None
           THEN /\ params' = [params EXCEPT ![p] = prm]
                /\ End(p, FailJson("one of the following is required"))
           ELSE IF st = "present"
                THEN EnterCreate(p, prm, chk)
                ELSE EnterDelete(p, prm, chk)
    /\ UNCHANGED <<kind, store0, store, created, resource, polls, sawGone, calls>>

---------------------------------------------------------------------------
(* create() *)

\* resource = api.get_<resource>(<resource>_id=id), then exit_json
CreateGet(p) ==
    /\ pc[p] = "create_get"
    /\ \E ans \in Answers :
        /\ calls' = [calls EXCEPT ![p] = Append(@, Call("get", target[p], Answer(ans, target[p])))]
        /\ IF ans = "error"
           THEN /\ End(p, Fault("ScalewayException"))
                /\ resource' = resource
           ELSE IF ~Held(target[p])
           THEN /\ End(p, Fault("ScalewayException404"))
                /\ resource' = resource
           ELSE /\ resource' = [resource EXCEPT ![p] = TheResource(target[p])]
                /\ End(p, ExitJson(F,
                                   IF check[p] THEN NoResource
                                   ELSE TheResource(target[p]),
                                   None, None))
    /\ UNCHANGED <<kind, store0, store, created, state, check, args, params, polls, sawGone,
                   after>>

\* (mutant) create() issues the create call again after a first failure
CreateCall_RetryOnce(p) ==
    /\ pc[p] = "create_call"
    /\ \E ans \in Answers :
        LET kwargs == CreateArgs(kind, params[p])
            r      == NewResource(kind, kwargs)
        IN /\ calls' = [calls EXCEPT ![p] = Append(@, Call("create", kwargs, ans))]
           /\ IF ans = "error"
              THEN /\ IF calls[p] = << >>
                      THEN Goto(p, "create_call", None)
                      ELSE End(p, Fault("ScalewayException"))
                   /\ UNCHANGED <<store, created, resource>>
              ELSE /\ store' = store \cup {r}
                   /\ created' = created + 1
                   /\ resource' = [resource EXCEPT ![p] = r]
                   /\ IF Waitable(kind)
                      THEN Goto(p, "create_wait", r.id)
                      ELSE End(p, ExitJson(T, r, None, None))
    /\ UNCHANGED <<kind, store0, state, check, args, params, polls, sawGone, after>>

\* resource = api.create_<resource>(**params), then wait_for_<resource> or
\* exit_json
CreateCall(p) ==
    /\ pc[p] = "create_call"
    /\ \E ans \in Answers :
        LET kwargs == CreateArgs(kind, params[p])
            r      == NewResource(kind, kwargs)
        IN /\ calls' = [calls EXCEPT ![p] = Append(@, Call("create", kwargs, ans))]
           /\ IF ans = "error"
              THEN /\ End(p, Fault("ScalewayException"))
                   /\ UNCHANGED <<store, created, resource>>
              ELSE /\ store' = store \cup {r}
                   /\ created' = created + 1
                   /\ resource' = [resource EXCEPT ![p] = r]
                   /\ IF Waitable(kind)
                      THEN Goto(p, "create_wait", r.id)
                      ELSE End(p, ExitJson(T, r, None, None))
    /\ UNCHANGED <<kind, store0, state, check, args, params, polls, sawGone, after>>

---------------------------------------------------------------------------
(* delete() *)

\* (mutant) delete() without its check_mode test
Resolved_NoCheck(p, r) ==
    /\ resource' = [resource EXCEPT ![p] = r]
    /\ Goto(p, "delete_call", r.id)

\* what delete() does once `resource` is bound
Resolved(p, r) ==
    /\ resource' = [resource EXCEPT ![p] = r]
    /\ IF check[p]
       THEN End(p, ExitJson(T, NoResource, None, None))
       ELSE Goto(p, "delete_call", r.id)

\* resource = api.get_<resource>(<resource>_id=id)
DeleteGet(p) ==
    /\ pc[p] = "delete_get"
    /\ \E ans \in Answers :
        /\ calls' = [calls EXCEPT ![p] = Append(@, Call("get", target[p], Answer(ans, target[p])))]
        /\ IF ans = "error"
           THEN /\ End(p, Fault("ScalewayException"))
                /\ resource' = resource
           ELSE IF ~Held(target[p])
           THEN /\ End(p, Fault("ScalewayException404"))
                /\ resource' = resource
           ELSE Resolved(p, TheResource(target[p]))
    /\ UNCHANGED <<kind, store0, store, created, state, check, args, params, polls, sawGone,
                   after>>

\* (mutant) the lookup by name takes the first of several matches
ListCases_First(p, resources) ==
    IF Cardinality(resources) = 0
    THEN /\ End(p, ExitJson(None, NoResource, "No credential found", None))
         /\ resource' = resource
    ELSE Resolved(p, CHOOSE r \in resources : TRUE)

\* (mutant) a lookup by name without a match is a failure
ListCases_FailOnNone(p, resources) ==
    IF Cardinality(resources) = 0
    THEN /\ End(p, FailJson("No credential found"))
         /\ resource' = resource
    ELSE IF Cardinality(resources) > 1
    THEN /\ End(p, ExitJson(None, NoResource, "More than one credential found",
                            None))
         /\ resource' = resource
    ELSE Resolved(p, CHOOSE r \in resources : TRUE)

\* the three cases of len(resources) after the lookup by name
ListCases(p, resources) ==
    IF Cardinality(resources) = 0
    THEN /\ End(p, ExitJson(None, NoResource, "No credential found", None))
         /\ resource' = resource
    ELSE IF Cardinality(resources) > 1
    THEN /\ End(p, ExitJson(None, NoResource, "More than one credential found",
                            None))
         /\ resource' = resource
    ELSE Resolved(p, CHOOSE r \in resources : TRUE)

\* resources = api.list_credentials_all(name=name)
DeleteList(p) ==
    /\ pc[p] = "delete_list"
    /\ \E ans \in Answers :
        LET resources == {r \in store : r.name = target[p]} IN
        /\ calls' = [calls EXCEPT ![p] = Append(@, Call("list", target[p],
                      IF ans = "error" THEN "error"
                      ELSE IF Cardinality(resources) = 0 THEN "none"
                      ELSE IF Cardinality(resources) > 1 THEN "many" ELSE "one"))]
        /\ IF ans = "error"
           THEN /\ End(p, Fault("ScalewayException"))
                /\ resource' = resource
           ELSE ListCases(p, resources)
    /\ UNCHANGED <<kind, store0, store, created, state, check, args, params, polls, sawGone,
                   after>>

\* (mutant) the message of delete()'s last exit_json does not carry the id
Deleted_NoId(r) == ExitJson(T, NoResource, "deleted", None)

\* the message of delete()'s last exit_json
Deleted(r) == ExitJson(T, NoResource, "deleted", r.id)

\* (mutant) the delete call removes every resource of the kind
DeleteCall_All(p) ==
    /\ pc[p] = "delete_call"
    /\ \E ans \in Answers :
        /\ calls' = [calls EXCEPT ![p] = Append(@, Call("delete", resource[p].id,
                                          Answer(ans, resource[p].id)))]
        /\ IF ans = "error"
           THEN /\ End(p, Fault("ScalewayException"))
                /\ store' = store
           ELSE IF ~Held(resource[p].id)
           THEN /\ End(p, Fault("ScalewayException404"))
                /\ store' = store
           ELSE /\ store' =
                     IF Waitable(kind)
                     THEN {IF r.id = resource[p].id
                           THEN [r EXCEPT !.status = "deleting"] ELSE r : r \in store}
                     ELSE {}
                /\ IF Waitable(kind)
                   THEN Goto(p, "delete_wait", resource[p].id)
                   ELSE End(p, Deleted(resource[p]))
    /\ UNCHANGED <<kind, store0, created, state, check, args, params, resource, polls, sawGone,
                   after>>

\* api.delete_<resource>(<resource>_id=resource.id), then wait_for_<resource>
\* or exit_json
DeleteCall(p) ==
    /\ pc[p] = "delete_call"
    /\ \E ans \in Answers :
        /\ calls' = [calls EXCEPT ![p] = Append(@, Call("delete", resource[p].id,
                                          Answer(ans, resource[p].id)))]
        /\ IF ans = "error"
           THEN /\ End(p, Fault("ScalewayException"))
                /\ store' = store
           ELSE IF ~Held(resource[p].id)
           THEN /\ End(p, Fault("ScalewayException404"))
                /\ store' = store
           ELSE /\ store' =
                     IF Waitable(kind)
                     THEN {IF r.id = resource[p].id
                           THEN [r EXCEPT !.status = "deleting"] ELSE r : r \in store}
                     ELSE {r \in store : r.id # resource[p].id}
                /\ IF Waitable(kind)
                   THEN Goto(p, "delete_wait", resource[p].id)
                   ELSE End(p, Deleted(resource[p]))
    /\ UNCHANGED <<kind, store0, created, state, check, args, params, resource, polls, sawGone,
                   after>>

---------------------------------------------------------------------------
(* wait_for_domain: one fetch of the SDK's polling loop.  After create() its *)
(* result is returned with changed=True; after delete() a ScalewayException  *)
(* with status_code 404 is swallowed and any other exception is raised again *)

\* how the wait ends, or "more" when the loop sleeps and fetches again
WaitResult(p, ans) ==
    IF ans = "error" THEN "error"
    ELSE IF ~Held(target[p]) THEN "404"
    ELSE IF TheResource(target[p]).status \notin TransientStatuses THEN "returned"
    ELSE IF polls[p] + 1 >= MaxPolls THEN "timeout"
    ELSE "more"

WaitPoll(p) ==
    /\ pc[p] \in {"create_wait", "delete_wait"}
    /\ \E ans \in Answers :
        LET res == WaitResult(p, ans) IN
        /\ polls' = [polls EXCEPT ![p] = @ + 1]
        /\ sawGone' = [sawGone EXCEPT ![p] = (res = "404")]
        /\ calls' = IF res = "more" THEN calls
                    ELSE [calls EXCEPT ![p] = Append(@, Call("wait", target[p], res))]
        /\ resource' = IF res = "returned" /\ pc[p] = "create_wait"
                       THEN [resource EXCEPT ![p] = TheResource(target[p])]
                       ELSE resource
        /\ IF res = "more" THEN Goto(p, pc[p], target[p])
           ELSE IF res = "error" THEN End(p, Fault("ScalewayException"))
           ELSE IF res = "timeout" THEN End(p, Fault("TimeoutException"))
           ELSE IF pc[p] = "delete_wait" THEN End(p, Deleted(resource[p]))
           ELSE IF res = "404" THEN End(p, Fault("ScalewayException404"))
           ELSE End(p, ExitJson(T, TheResource(target[p]), None, None))
    /\ UNCHANGED <<kind, store0, store, created, state, check, args, params, after>>

---------------------------------------------------------------------------
(* The provider finishes an asynchronous operation: a pending resource gets *)
(* ready or fails, a resource being deleted disappears                      *)

ProviderProgress ==
    /\ \E r \in store, st \in {"ready", "error"} :
        /\ r.status \in TransientStatuses
        /\ store' = IF r.status = "deleting"
                    THEN store \ {r}
                    ELSE (store \ {r}) \cup {[r EXCEPT !.status = st]}
    /\ UNCHANGED <<kind, store0, created, pc, state, check, args, params, resource,
                   target, polls, sawGone, calls, outcome, after>>

---------------------------------------------------------------------------

Next ==
    \/ \E p \in Procs : Main(p)
    \/ \E p \in Procs : CreateGet(p)
    \/ \E p \in Procs : CreateCall(p)
    \/ \E p \in Procs : DeleteGet(p)
    \/ \E p \in Procs : DeleteList(p)
    \/ \E p \in Procs : DeleteCall(p)
    \/ \E p \in Procs : WaitPoll(p)
    \/ ProviderProgress

Spec == Init /\ [][Next]_vars

\* An invocation is a sequential process: each provider call it has reached
\* is made and answered (the SDK's calls block and return or raise).  Nothing
\* forces a new invocation to start or the provider to finish its work.
\* Step(p) is the next call of invocation p.
Step(p) ==
    \/ CreateGet(p) \/ CreateCall(p)
    \/ DeleteGet(p) \/ DeleteList(p) \/ DeleteCall(p)
    \/ WaitPoll(p)

Fairness == \A p \in Procs : WF_vars(Step(p))

FairSpec == Spec /\ Fairness

---------------------------------------------------------------------------
(* Vocabulary of the properties *)

Done(p) == pc[p] = "done"

\* the positions of the calls of invocation p whose operation is in ops
Issued(p, ops) == {i \in DOMAIN calls[p] : calls[p][i].op \in ops}

\* invocation p made a call of operation op that the provider answered ans
Answered(p, op, ans) ==
    \E i \in DOMAIN calls[p] : calls[p][i].op = op /\ calls[p][i].ans = ans

Mutating == {"create", "delete"}

\* a call of p failed for a reason other than not-found, or its wait timed out
Trouble(p) == \E i \in DOMAIN calls[p] : calls[p][i].ans \in {"error", "timeout"}

\* the result tells the caller that something changed; a result emitted
\* without the changed key counts as unchanged
ReportsChanged(out) == out.changed = T

\* create() and delete() read the option "id", and the module defines it
ReadsGivenId(k) == IdentityField(k) = "id"

\* what the provider held at first under id i
Held0(i) == \E r \in store0 : r.id = i
Resource0(i) == CHOOSE r \in store0 : r.id = i

\* the request of p passed the argument validation of main()
Accepted(p) ==
    RequiredOneOf(kind) = {} \/ \E x \in RequiredOneOf(kind) : args[p][x] # None

\* q is the same request as p, made once p had ended
Repeats(p, q) ==
    /\ p # q /\ Done(p) /\ Done(q) /\ p \in after[q]
    /\ state[p] = state[q] /\ args[p] = args[q] /\ Accepted(p)

\* the value the caller gave for the option documented as the resource's id
GivenId(p) == args[p][IdentityField(kind)]

\* no other invocation has begun
Alone(p) == \A q \in Procs \ {p} : pc[q] = "init"

\* the resource a lone present request without an id creates
SoloCreated(p) ==
    [id     |-> Id(MaxInit + 1),
     name   |-> IF HasName(kind) THEN args[p]["name"] ELSE None,
     status |-> "ready"]

\* what invocation p ends with when it runs on its own against store0 and no
\* provider call fails (kinds that read the given id)
SoloOutcome(p) ==
    LET i == GivenId(p) IN
    IF i # None
    THEN IF ~Held0(i) THEN Fault("ScalewayException404")
         ELSE IF state[p] = "present"
         THEN ExitJson(F, IF check[p] THEN NoResource ELSE Resource0(i), None, None)
         ELSE IF check[p] THEN ExitJson(T, NoResource, None, None)
         ELSE Deleted(Resource0(i))
    ELSE IF ~Accepted(p) THEN FailJson("one of the following is required")
         ELSE IF state[p] = "absent" THEN FailJson("id is required")
         ELSE IF check[p] THEN ExitJson(T, NoResource, None, None)
         ELSE ExitJson(T, SoloCreated(p), None, None)

\* what the provider holds once each invocation has had its own effect on
\* store0: the resources deleted are gone, the resources created are there
SoloStore ==
    {r \in store0 : ~\E p \in Procs :
        state[p] = "absent" /\ ~check[p] /\ GivenId(p) = r.id}
    \cup {SoloCreated(p) : p \in {q \in Procs :
        state[q] = "present" /\ ~check[q] /\ GivenId(q) = None /\ Accepted(q)}}

\* q is the request of p without check mode, run once p had ended, and both
\* reported a result
DryThenReal(p, q) ==
    /\ p # q /\ Done(p) /\ Done(q) /\ p \in after[q]
    /\ state[p] = state[q] /\ args[p] = args[q]
    /\ check[p] /\ ~check[q]
    /\ outcome[p].type = "exit" /\ outcome[q].type = "exit"

---------------------------------------------------------------------------
(* C1 - Idempotence of present: a present request run twice in a row, with   *)
(* the same attributes and no failing provider call, against a provider that *)
(* held nothing at first, reports changed=true then changed=false, leaves    *)
(* exactly one resource and returns the same resource both times.  Stated    *)
(* for requests that name no id, as a request for a resource that does not   *)
(* exist yet cannot.                                                         *)

C1_PresentIdempotent ==
    \A p, q \in Procs :
        ( /\ Repeats(p, q) /\ state[p] = "present"
          /\ ~check[p] /\ ~check[q]
          /\ ~Trouble(p) /\ ~Trouble(q)
          /\ GivenId(p) = None
          /\ \A r \in store : r.id \notin InitIds )
        => /\ outcome[p].changed = T
           /\ outcome[q].changed = F
           /\ outcome[q].data = outcome[p].data
           /\ Cardinality(store) = 1

---------------------------------------------------------------------------
(* C2 - Idempotence of absent: an absent request for an id that existed,    *)
(* run twice in a row, reports changed=true then changed=false without an   *)
(* error; and every absent request whose get is answered 404 ends with      *)
(* exit_json, changed=false and no delete call.                             *)

C2_AbsentIdempotent ==
    /\ \A p, q \in Procs :
        ( /\ Repeats(p, q) /\ state[p] = "absent"
          /\ ~check[p] /\ ~check[q]
          /\ ~Trouble(p) /\ ~Trouble(q)
          /\ Answered(p, "get", "ok") )
        => /\ outcome[p].type = "exit" /\ outcome[p].changed = T
           /\ outcome[q].type = "exit" /\ outcome[q].changed = F
    /\ \A p \in Procs :
        (Done(p) /\ state[p] = "absent" /\ Answered(p, "get", "404"))
        => /\ outcome[p].type = "exit" /\ outcome[p].changed = F
           /\ Issued(p, {"delete"}) = {}

---------------------------------------------------------------------------
(* C3 - Dry-run safety: an invocation in check mode issues no create and no *)
(* delete call and returns no resource body, and the changed flag it        *)
(* reports is the flag the same request reports when it is then run without *)
(* check mode.                                                              *)

C3_DryRunSafe ==
    /\ \A p \in Procs : check[p] => Issued(p, Mutating) = {}
    /\ \A p \in Procs :
        (check[p] /\ outcome[p].type = "exit") => outcome[p].data = NoResource
    /\ \A p, q \in Procs :
        DryThenReal(p, q) => outcome[p].changed = outcome[q].changed

C3_Witness ==
    \E p, q \in Procs :
        /\ DryThenReal(p, q)
        /\ outcome[p].changed = T
        /\ Issued(q, Mutating) # {}

---------------------------------------------------------------------------
(* C4 - Ambiguity: when the lookup by name returns more than one resource   *)
(* the invocation ends with exit_json carrying the "more than one" message  *)
(* (not fail_json, not an exception) and issues no create or delete call.   *)

C4_AmbiguousIsBenign ==
    \A p \in Procs :
        Answered(p, "list", "many")
        => /\ outcome[p].type = "exit"
           /\ outcome[p].msg = "More than one credential found"
           /\ Issued(p, Mutating) = {}

C4_Witness ==
    \E p \in Procs : Done(p) /\ Answered(p, "list", "many")

---------------------------------------------------------------------------
(* C5 - Exactly one outcome: every invocation that ends has emitted         *)
(* exit_json or fail_json, and once an outcome is emitted the invocation    *)
(* makes no further provider call and emits no second outcome.              *)

C5_ExactlyOneOutcome ==
    /\ [](\A p \in Procs : Done(p) => outcome[p].type \in {"exit", "fail"})
    /\ [][\A p \in Procs :
            outcome[p].type # "none"
            => outcome'[p] = outcome[p] /\ calls'[p] = calls[p]]_vars

---------------------------------------------------------------------------
(* C6 - Error propagation: an invocation one of whose provider calls (get,  *)
(* list, create, delete, wait) failed for a reason other than not-found     *)
(* ends with fail_json carrying a message, never with an unhandled          *)
(* exception.                                                               *)

C6_ErrorsBecomeOutcomes ==
    \A p \in Procs :
        (Done(p) /\ Trouble(p))
        => outcome[p].type = "fail" /\ outcome[p].msg # None

---------------------------------------------------------------------------
(* C7 - Present with an id the provider does not know: the 404 of the get   *)
(* is not an error; the invocation goes on to create and ends with          *)
(* changed=true (without the create call in check mode).                    *)

C7_PresentUnknownIdCreates ==
    \A p \in Procs :
        ( /\ Done(p) /\ state[p] = "present"
          /\ Answered(p, "get", "404") /\ ~Trouble(p) )
        => /\ outcome[p].type = "exit" /\ outcome[p].changed = T
           /\ check[p] => Issued(p, {"create"}) = {}
           /\ ~check[p] => Issued(p, {"create"}) # {}

---------------------------------------------------------------------------
(* C8 - Present on an existing resource is a no-op: when the caller gives   *)
(* the identity option of the kind (id, domain_id, credential_id) with the  *)
(* id of a resource the provider holds, the invocation issues no create and *)
(* no delete call, the provider's resources stay as they were, and it ends  *)
(* with changed=false and the fetched resource (no body in check mode).     *)

C8_PresentExistingIsNoop ==
    \A p \in Procs :
        ( /\ Done(p) /\ state[p] = "present" /\ Alone(p)
          /\ GivenId(p) \in InitIds /\ Held(GivenId(p))
          /\ ~Trouble(p) )
        => /\ Issued(p, Mutating) = {}
           /\ created = 0
           /\ outcome[p].type = "exit" /\ outcome[p].changed = F
           /\ outcome[p].data = IF check[p] THEN NoResource
                                ELSE TheResource(GivenId(p))

---------------------------------------------------------------------------
(* C9 - Create then poll (function domain): the wait begins only after a    *)
(* successful create and is about the created resource; when the wait ends  *)
(* on status ready the invocation ends with changed=true and that snapshot; *)
(* when it ends on status error, or on the deadline, the invocation ends    *)
(* with fail_json; success is never reported with a resource whose status   *)
(* is error or pending.                                                     *)

C9_CreateThenPoll ==
    \A p \in Procs :
        (Waitable(kind) /\ state[p] = "present")
        => /\ pc[p] = "create_wait"
              => Answered(p, "create", "ok") /\ target[p] = resource[p].id
           /\ (Done(p) /\ Answered(p, "wait", "returned")
                       /\ resource[p].status = "ready")
              => /\ outcome[p].type = "exit" /\ outcome[p].changed = T
                 /\ outcome[p].data = resource[p]
           /\ (Done(p) /\ Answered(p, "wait", "returned")
                       /\ resource[p].status = "error")
              => outcome[p].type = "fail"
           /\ (Done(p) /\ Answered(p, "wait", "timeout"))
              => outcome[p].type = "fail"
           /\ (outcome[p].type = "exit" /\ outcome[p].changed = T
                                        /\ outcome[p].data # NoResource)
              => outcome[p].data.status \notin {"error", "pending"}

---------------------------------------------------------------------------
(* C10 - Delete then poll (function domain): an absent request for the id   *)
(* of a resource the provider holds issues the delete call, polls until a   *)
(* fetch answers not-found and then ends with changed=true and the          *)
(* "deleted" message; that outcome is emitted only once the wait has seen   *)
(* not-found; any other failure of the wait ends with fail_json.            *)

C10_DeleteThenPoll ==
    \A p \in Procs :
        Waitable(kind)
        => /\ ( /\ Done(p) /\ state[p] = "absent" /\ ~check[p] /\ Alone(p)
                /\ GivenId(p) \in InitIds
                /\ Held(GivenId(p)) \/ Answered(p, "delete", "ok")
                /\ ~Trouble(p) )
              => /\ Issued(p, {"delete"}) # {}
                 /\ outcome[p] = ExitJson(T, NoResource, "deleted", GivenId(p))
           /\ outcome[p].msg = "deleted" => sawGone[p]
           /\ (Done(p) /\ state[p] = "absent" /\ Answered(p, "wait", "error"))
              => outcome[p].type = "fail"

---------------------------------------------------------------------------
(* C11 - Missing identity on absent: for every resource kind, an absent     *)
(* request that gives no id (and no name, where delete() looks up by name)  *)
(* ends with fail_json, and no provider call of any kind is made before it. *)

C11_MissingIdentityFails ==
    \A p \in Procs :
        ( /\ Done(p) /\ state[p] = "absent"
          /\ GivenId(p) = None
          /\ DeleteByName(kind) => args[p]["name"] = None )
        => /\ outcome[p].type = "fail"
           /\ calls[p] = << >>

---------------------------------------------------------------------------
(* C12 - Absent on an existing resource, no check mode: delete() resolves   *)
(* the resource first (get by id, or the lookup by name with one match),    *)
(* then issues exactly one delete call, on the id of the resource it        *)
(* resolved, and once that call succeeded ends with changed=true and a      *)
(* message carrying that id.  A delete call is never made before the        *)
(* resolution, nor in check mode, nor on any other id.                      *)

---------------------------------------------------------------------------
(* C13 - No retry, one mutation per invocation: an invocation issues at     *)
(* most one mutating call; a present request never issues a delete, an      *)
(* absent request never issues a create; a create or delete call that       *)
(* failed is the invocation's last call and is not issued again.            *)

C13_OneMutationNoRetry ==
    \A p \in Procs :
        /\ Cardinality(Issued(p, Mutating)) <= 1
        /\ state[p] = "present" => Issued(p, {"delete"}) = {}
        /\ state[p] = "absent" => Issued(p, {"create"}) = {}
        /\ \A i \in Issued(p, Mutating) :
              calls[p][i].ans # "ok" => (i = Len(calls[p]) /\ Done(p))

C13_Witness ==
    \E p \in Procs :
        /\ Done(p) /\ state[p] = "present"
        /\ Len(calls[p]) = 1
        /\ calls[p][1].op = "create" /\ calls[p][1].ans = "error"
        /\ outcome[p].type = "fault"

---------------------------------------------------------------------------
(* C14 - Create arguments: for every resource kind, the keyword arguments   *)
(* of the create call are exactly the options of the kind the caller gave,  *)
(* each with the value given; an option left unset is omitted, never passed *)
(* as None, and the generic options (state, check mode) are never passed.   *)

C14_CreateArgsAsSupplied ==
    \A p \in Procs :
        \A i \in Issued(p, {"create"}) :
            LET kwargs == calls[p][i].arg IN
            /\ DOMAIN kwargs = {x \in ArgSpec(kind) : args[p][x] # None}
            /\ \A x \in DOMAIN kwargs : kwargs[x] = args[p][x]

---------------------------------------------------------------------------
(* C15 - Lookup by name without a match (mnq credential): an absent request *)
(* whose list call returns no resource ends as a benign no-op, in check     *)
(* mode and without it: exit_json and not fail_json or an exception, no     *)
(* delete call, nothing else after the list call, and a result that does    *)
(* not report a change.                                                     *)

C15_NoMatchIsNoop ==
    \A p \in Procs :
        Answered(p, "list", "none")
        => /\ Done(p)
           /\ outcome[p].type = "exit"
           /\ ~ReportsChanged(outcome[p])
           /\ outcome[p].msg = "No credential found"
           /\ Issued(p, Mutating) = {}
           /\ Len(calls[p]) = 1

C15_Witness ==
    \E p, q \in Procs :
        /\ p # q /\ Done(p) /\ Done(q)
        /\ state[p] = "absent" /\ state[q] = "absent"
        /\ check[p] /\ ~check[q]
        /\ Answered(p, "list", "none") /\ Answered(q, "list", "none")
        /\ store # {}

---------------------------------------------------------------------------
(* Every invocation that has started ends, one way or another: create() and *)
(* delete() are straight-line code and the wait gives up at its deadline.   *)

EveryInvocationEnds == \A p \in Procs : (pc[p] # "init") ~> Done(p)

(* C16 - Termination: every invocation that has started eventually ends     *)
(* with exit_json (DONE) or fail_json (FAILED); the polling makes at most   *)
(* MaxPolls fetches, and an invocation whose resource stays pending until   *)
(* the deadline of the wait ends with fail_json.                            *)

C16_Terminates ==
    /\ \A p \in Procs :
          (pc[p] # "init") ~> (Done(p) /\ outcome[p].type \in {"exit", "fail"})
    /\ [](\A p \in Procs :
            /\ polls[p] <= MaxPolls
            /\ Answered(p, "wait", "timeout")
               => Done(p) /\ outcome[p].type = "fail")

---------------------------------------------------------------------------
(* C17 - Independence of concurrent invocations on distinct identities      *)
(* (application, PAT rule): when two invocations that target different      *)
(* resources - the ids of two resources, or an id and a resource to create  *)
(* - run with their provider calls interleaved in any order and no call     *)
(* fails, each ends with the outcome it has when it runs alone, and the     *)
(* provider ends up holding the same resources whatever the interleaving.   *)

---------------------------------------------------------------------------
(* C18 - Resource vanishing between resolution and delete: when the delete  *)
(* call of an absent request is answered not-found, because another         *)
(* invocation deleted the resource after this one resolved it, the          *)
(* invocation does not end with an unhandled exception or a failure: it     *)
(* ends with exit_json, changed=true or changed=false.                      *)

C18_VanishedIsBenign ==
    \A p \in Procs :
        (Done(p) /\ state[p] = "absent" /\ Answered(p, "delete", "404"))
        => /\ outcome[p].type = "exit"
           /\ outcome[p].changed \in {T, F}

====
